---- MODULE Spec2Model ----
(***************************************************************************)
(* Model of src/main.c: the HID demo sequencer (hid_task), its report      *)
(* helpers, the device lifecycle callbacks, the SET_REPORT handler and the *)
(* LED blinking task, run from the cooperative main loop.                  *)
(***************************************************************************)
EXTENDS Integers, Sequences, FiniteSets, TLC

\* ------------------------------------------------------------------------
\* Program constants.  The blink intervals, the poll interval and the two
\* waits are set in main.c; the report ids are those of usb_descriptors.h
\* and the HID codes those of TinyUSB's class/hid/hid.h.
\* ------------------------------------------------------------------------
BLINK_NOT_MOUNTED == 250
BLINK_MOUNTED == 1000
BLINK_SUSPENDED == 2500

interval_ms == 10
WAIT_INIT_MS == 2000
WAIT_BEFORE_TYPE_MS == 500

REPORT_ID_KEYBOARD == 1
REPORT_ID_MOUSE == 2
HID_REPORT_TYPE_OUTPUT == 2
KEYBOARD_LED_CAPSLOCK == 2
KEYBOARD_MODIFIER_LEFTSHIFT == 2
MOUSE_BUTTON_LEFT == 1
HID_KEY_A == 4
HID_KEY_1 == 30
HID_KEY_SPACE == 44

\* uint32_t arithmetic on clock values.  The model checker's integers are 32
\* bit signed, so 2^32 itself cannot be written: every clock value of the
\* model is at most MaxNow, a sum never wraps, and a difference that wraps
\* in C (a < b) is at least 2^32 - MaxNow, more than every threshold it is
\* compared with; Wrapped stands for it.
Wrapped == 2^30
U32Sub(a, b) == IF a >= b THEN a - b ELSE Wrapped
U32Add(a, b) == a + b

\* "Hello World!" as C chars; the string is NUL terminated
text_to_type == <<72, 101, 108, 108, 111, 32, 87, 111, 114, 108, 100, 33>>
TextLen == Len(text_to_type)
TextAt(i) == IF i < TextLen THEN text_to_type[i + 1] ELSE 0

\* ------------------------------------------------------------------------
\* Bounds of the model
\* ------------------------------------------------------------------------
\* the clock is not advanced past MaxNow
MaxNow == 2320
\* while the sequencer is Idle the clock is not advanced past MaxIdleNow, and
\* the device is not mounted after it: a script run starts from Idle early
MaxIdleNow == 11
\* the clock is advanced only while hid_task is less than MaxLag ms behind
MaxLag == 10
\* a 1 ms clock step is taken only while now % interval_ms < MaxFine
MaxFine == 1
\* the clock of the whole device's specification is not advanced past MaxDevNow
MaxDevNow == 300
\* the report helpers are called on their own until MaxAccepted reports have
\* been accepted
MaxAccepted == 1
\* the clock of the specification of the switch is not advanced past
\* MaxCaseNow
MaxCaseNow == 40
\* in the specification of the endless run the clock value is not written
\* past MaxLiveNow: from there on the clock goes on with every clock value
\* of the state taken relative to a moving origin
MaxLiveNow == 2100
\* in the endless run a later session starts from Idle only while at most
\* MaxSentAtRemount reports have been accepted
MaxSentAtRemount == 1

ClockSteps == {1, interval_ms, 2 * interval_ms}

\* ------------------------------------------------------------------------
\* State
\* ------------------------------------------------------------------------
VARIABLES
  now,               \* board_millis()
  mounted,           \* tud_mounted()
  suspended,         \* tud_suspended()
  blink_interval_ms, \* static uint32_t blink_interval_ms
  app_state,         \* static app_state_t app_state
  state_start_ms,    \* static uint32_t state_start_ms
  text_index,        \* static int text_index
  hid_start_ms,      \* static uint32_t start_ms of hid_task
  led_start_ms,      \* static uint32_t start_ms of led_blinking_task
  led_state,         \* static bool led_state of led_blinking_task
  led,               \* level last written by board_led_write
  kbd_leds,          \* LED bitmask of the last keyboard SET_REPORT
  sent,              \* reports the transport accepted, in order
  xfer,              \* payloads handed to the send primitive by the last step
  ret,               \* the bool the send helper called by the last step
                     \* returned (FALSE if it called none)
  wake,              \* tud_remote_wakeup() calls made by the last step
  led_wr,            \* board_led_write() calls made by the last step
  last,              \* what the last step did: the path of a hid_task call
                     \* that passed the poll gate, "led", "set_report", the
                     \* name of a report helper called on its own, or "none"
                     \* (a bus event, a clock step, an early return)
  cancel_pending,    \* an unmount event found app_state not Idle, and
                     \* app_state has not been Idle since
  wbt_entry_ms       \* while in STATE_WAIT_BEFORE_TYPE: the clock value at
                     \* which the sequencer entered it (0 in other states)

seqvars == <<app_state, state_start_ms, text_index>>
histvars == <<cancel_pending, wbt_entry_ms>>
vars == <<now, mounted, suspended, blink_interval_ms, app_state,
          state_start_ms, text_index, hid_start_ms, led_start_ms, led_state,
          led, kbd_leds, sent, xfer, ret, wake, led_wr, last, cancel_pending,
          wbt_entry_ms>>

States == {"STATE_IDLE", "STATE_WAIT_INIT", "STATE_MOUSE_UP",
           "STATE_MOUSE_DOWN", "STATE_CLICK_PRESS", "STATE_CLICK_RELEASE",
           "STATE_WAIT_BEFORE_TYPE", "STATE_TYPE_CHAR", "STATE_RELEASE_CHAR",
           "STATE_DONE"}

Init ==
  /\ now = 0
  /\ mounted = FALSE
  /\ suspended = FALSE
  /\ blink_interval_ms = BLINK_NOT_MOUNTED
  /\ app_state = "STATE_IDLE"
  /\ state_start_ms = 0
  /\ text_index = 0
  /\ hid_start_ms = 0
  /\ led_start_ms = 0
  /\ led_state = FALSE
  /\ led = FALSE
  /\ kbd_leds = 0
  /\ sent = <<>>
  /\ xfer = <<>>
  /\ ret = FALSE
  /\ wake = 0
  /\ led_wr = 0
  /\ last = "none"
  /\ cancel_pending = FALSE
  /\ wbt_entry_ms = 0

\* ------------------------------------------------------------------------
\* Report transport helpers.  Each returns [ret, handed]: the bool the C
\* function returns and the payloads it handed to the send primitive.
\* ready is what tud_hid_ready() answers at the call, ok what the send
\* primitive returns.
\* ------------------------------------------------------------------------
NoKeys == <<0, 0, 0, 0, 0, 0>>
\* the NULL keycode pointer
NULL == <<>>

\* tud_hid_keyboard_report: a NULL keycode array is sent as six zeros
tud_hid_keyboard_report(ok, report_id, modifier, keycode) ==
  [ret |-> ok,
   handed |-> <<[kind |-> "keyboard", id |-> report_id, modifier |-> modifier,
                 keycode |-> IF keycode = NULL THEN NoKeys ELSE keycode]>>]

tud_hid_mouse_report(ok, report_id, buttons, x, y, vertical, horizontal) ==
  [ret |-> ok,
   handed |-> <<[kind |-> "mouse", id |-> report_id, buttons |-> buttons,
                 x |-> x, y |-> y, vertical |-> vertical,
                 horizontal |-> horizontal]>>]

NotSent == [ret |-> FALSE, handed |-> <<>>]

send_keyboard_report(ready, ok, report_id, modifier, keycode) ==
  IF ~ready THEN NotSent
  ELSE tud_hid_keyboard_report(ok, report_id, modifier, keycode)

send_key_press(ready, ok, modifier, key_code) ==
  send_keyboard_report(ready, ok, REPORT_ID_KEYBOARD, modifier,
                       <<key_code, 0, 0, 0, 0, 0>>)

send_key_release(ready, ok) ==
  tud_hid_keyboard_report(ok, REPORT_ID_KEYBOARD, 0, NULL)

\* mutant: the move is sent without asking tud_hid_ready()
send_mouse_move_NoCheck(ready, ok, x, y) ==
  tud_hid_mouse_report(ok, REPORT_ID_MOUSE, 0, x, y, 0, 0)

send_mouse_move(ready, ok, x, y) ==
  IF ~ready THEN NotSent
  ELSE tud_hid_mouse_report(ok, REPORT_ID_MOUSE, 0, x, y, 0, 0)

send_mouse_click(ready, ok, buttons) ==
  IF ~ready THEN NotSent
  ELSE tud_hid_mouse_report(ok, REPORT_ID_MOUSE, buttons, 0, 0, 0, 0)

send_mouse_release(ready, ok) ==
  IF ~ready THEN NotSent
  ELSE tud_hid_mouse_report(ok, REPORT_ID_MOUSE, 0, 0, 0, 0, 0)

\* ------------------------------------------------------------------------
\* Character mapping of STATE_TYPE_CHAR
\* ------------------------------------------------------------------------
\* mutant: an uppercase letter typed without the shift modifier
KeyFor_NoShift(c) ==
  IF c >= 97 /\ c <= 122 THEN [key |-> HID_KEY_A + (c - 97), modifier |-> 0]
  ELSE IF c >= 65 /\ c <= 90 THEN [key |-> HID_KEY_A + (c - 65), modifier |-> 0]
  ELSE IF c = 32 THEN [key |-> HID_KEY_SPACE, modifier |-> 0]
  ELSE IF c = 33
    THEN [key |-> HID_KEY_1, modifier |-> KEYBOARD_MODIFIER_LEFTSHIFT]
  ELSE [key |-> 0, modifier |-> 0]

KeyFor(c) ==
  IF c >= 97 /\ c <= 122 THEN [key |-> HID_KEY_A + (c - 97), modifier |-> 0]
  ELSE IF c >= 65 /\ c <= 90
    THEN [key |-> HID_KEY_A + (c - 65), modifier |-> KEYBOARD_MODIFIER_LEFTSHIFT]
  ELSE IF c = 32 THEN [key |-> HID_KEY_SPACE, modifier |-> 0]
  ELSE IF c = 33
    THEN [key |-> HID_KEY_1, modifier |-> KEYBOARD_MODIFIER_LEFTSHIFT]
  ELSE [key |-> 0, modifier |-> 0]

\* ------------------------------------------------------------------------
\* hid_task
\* ------------------------------------------------------------------------
\* the poll gate: board_millis() - start_ms < interval_ms returns early
\* mutant: no poll gate, every call is evaluated
HidDue_NoGate == TRUE

HidDue == U32Sub(now, hid_start_ms) >= interval_ms

\* mutant: the wait ends at 2000 ms, not after it
WaitInitOver_AtLeast == U32Sub(now, state_start_ms) >= WAIT_INIT_MS

WaitInitOver == U32Sub(now, state_start_ms) > WAIT_INIT_MS
WaitBeforeTypeOver == U32Sub(now, state_start_ms) > WAIT_BEFORE_TYPE_MS

\* what one case of the switch leaves behind
Keep(out) ==
  [st |-> app_state, start |-> state_start_ms, idx |-> text_index, out |-> out]
Goto(st, out) ==
  [st |-> st, start |-> state_start_ms, idx |-> text_index, out |-> out]

CaseIdle == [Goto("STATE_WAIT_INIT", NotSent) EXCEPT !.start = now]

\* mutant: the mouse moves are spliced in after the initial wait
CaseWaitInit_ToMouse ==
  IF WaitInitOver THEN Goto("STATE_MOUSE_UP", NotSent) ELSE Keep(NotSent)

CaseWaitInit ==
  IF WaitInitOver THEN Goto("STATE_WAIT_BEFORE_TYPE", NotSent) ELSE Keep(NotSent)

\* mutant: the sequencer moves on whether or not the move was sent
CaseMouseUp_Always(ready, ok) ==
  Goto("STATE_MOUSE_DOWN", send_mouse_move(ready, ok, 0, -20))

CaseMouseUp(ready, ok) ==
  LET out == send_mouse_move(ready, ok, 0, -20)
  IN IF out.ret THEN Goto("STATE_MOUSE_DOWN", out) ELSE Keep(out)

CaseMouseDown(ready, ok) ==
  LET out == send_mouse_move(ready, ok, 0, 20)
  IN IF out.ret THEN Goto("STATE_CLICK_PRESS", out) ELSE Keep(out)

CaseClickPress(ready, ok) ==
  LET out == send_mouse_click(ready, ok, MOUSE_BUTTON_LEFT)
  IN IF out.ret THEN Goto("STATE_CLICK_RELEASE", out) ELSE Keep(out)

CaseClickRelease(ready, ok) ==
  LET out == send_mouse_release(ready, ok)
  IN IF out.ret
       THEN [Goto("STATE_WAIT_BEFORE_TYPE", out) EXCEPT !.start = now]
       ELSE Keep(out)

\* mutant: the wait before typing never ends
CaseWaitBeforeType_Stuck == Keep(NotSent)

CaseWaitBeforeType ==
  IF WaitBeforeTypeOver
    THEN [Goto("STATE_TYPE_CHAR", NotSent) EXCEPT !.idx = 0]
    ELSE Keep(NotSent)

\* mutant: the terminating NUL is typed like any other character
CaseTypeChar_NoNul(ready, ok) ==
  LET c == TextAt(text_index)
      k == KeyFor(c)
      out == send_key_press(ready, ok, k.modifier, k.key)
  IN IF out.ret THEN Goto("STATE_RELEASE_CHAR", out) ELSE Keep(out)

CaseTypeChar(ready, ok) ==
  LET c == TextAt(text_index)
      k == KeyFor(c)
      out == send_key_press(ready, ok, k.modifier, k.key)
  IN IF c = 0 THEN Goto("STATE_DONE", NotSent)
     ELSE IF out.ret THEN Goto("STATE_RELEASE_CHAR", out) ELSE Keep(out)

\* mutant: the release is left out and the cursor advances
CaseReleaseChar_Skip(ready, ok) ==
  [Goto("STATE_TYPE_CHAR", NotSent) EXCEPT !.idx = text_index + 1]

\* mutant: the cursor advances whether or not the release was sent
CaseReleaseChar_Always(ready, ok) ==
  LET out == send_key_release(ready, ok)
  IN [Goto("STATE_TYPE_CHAR", out) EXCEPT !.idx = text_index + 1]

CaseReleaseChar(ready, ok) ==
  LET out == send_key_release(ready, ok)
  IN IF out.ret
       THEN [Goto("STATE_TYPE_CHAR", out) EXCEPT !.idx = text_index + 1]
       ELSE Keep(out)

CaseDone == Keep(NotSent)

\* switch (app_state)
Switch(ready, ok) ==
  CASE app_state = "STATE_IDLE" -> CaseIdle
    [] app_state = "STATE_WAIT_INIT" -> CaseWaitInit
    [] app_state = "STATE_MOUSE_UP" -> CaseMouseUp(ready, ok)
    [] app_state = "STATE_MOUSE_DOWN" -> CaseMouseDown(ready, ok)
    [] app_state = "STATE_CLICK_PRESS" -> CaseClickPress(ready, ok)
    [] app_state = "STATE_CLICK_RELEASE" -> CaseClickRelease(ready, ok)
    [] app_state = "STATE_WAIT_BEFORE_TYPE" -> CaseWaitBeforeType
    [] app_state = "STATE_TYPE_CHAR" -> CaseTypeChar(ready, ok)
    [] app_state = "STATE_RELEASE_CHAR" -> CaseReleaseChar(ready, ok)
    [] app_state = "STATE_DONE" -> CaseDone

\* the guards evaluated before the switch
NotMounted == ~mounted
\* mutant: the suspended guard never returns
Suspended_Never == FALSE

Suspended == suspended
\* mutant: the readiness guard never returns
NotReady_Never(ready) == FALSE

NotReady(ready) == ~ready

\* mutant: the reset to Idle also captures the clock
UnmountedReset_Reanchor == [Goto("STATE_IDLE", NotSent) EXCEPT !.start = now]

\* what the unmounted guard leaves behind
UnmountedReset == Goto("STATE_IDLE", NotSent)

\* The path one call of hid_task takes and what it leaves behind.  ready is
\* tud_hid_ready() at the guard, ready2 is tud_hid_ready() inside the send
\* helper, ok is the send primitive's result.
HidOutcome(ready, ready2, ok) ==
  IF ~HidDue THEN [path |-> "none", r |-> Keep(NotSent)]
  ELSE IF NotMounted THEN [path |-> "unmounted", r |-> UnmountedReset]
  ELSE IF Suspended THEN [path |-> "suspended", r |-> Keep(NotSent)]
  ELSE IF NotReady(ready) THEN [path |-> "not_ready", r |-> Keep(NotSent)]
  ELSE [path |-> "switch", r |-> Switch(ready2, ok)]

HidTask(ready, ready2, ok) ==
  LET o == HidOutcome(ready, ready2, ok)
  IN /\ hid_start_ms' = IF o.path = "none" THEN hid_start_ms
                        ELSE U32Add(hid_start_ms, interval_ms)
     /\ app_state' = o.r.st
     /\ state_start_ms' = o.r.start
     /\ text_index' = o.r.idx
     /\ xfer' = o.r.out.handed
     /\ ret' = o.r.out.ret
     /\ sent' = IF o.r.out.ret THEN sent \o o.r.out.handed ELSE sent
     /\ wake' = IF o.path = "suspended" THEN 1 ELSE 0
     /\ led_wr' = 0
     /\ last' = o.path
     /\ cancel_pending' = IF o.r.st = "STATE_IDLE" THEN FALSE
                          ELSE cancel_pending
     /\ wbt_entry_ms' = IF o.r.st # "STATE_WAIT_BEFORE_TYPE" THEN 0
                        ELSE IF app_state = "STATE_WAIT_BEFORE_TYPE"
                          THEN wbt_entry_ms
                        ELSE now
     /\ UNCHANGED <<now, mounted, suspended, blink_interval_ms, led_start_ms,
                    led_state, led, kbd_leds>>

hid_task == \E ready, ready2, ok \in BOOLEAN : HidTask(ready, ready2, ok)

\* ------------------------------------------------------------------------
\* Device callbacks, invoked by tud_task() when it handles a bus event
\* ------------------------------------------------------------------------
tud_mount_cb == BLINK_MOUNTED
tud_umount_cb == BLINK_NOT_MOUNTED
tud_suspend_cb == BLINK_SUSPENDED
tud_resume_cb == IF mounted THEN BLINK_MOUNTED ELSE BLINK_NOT_MOUNTED

Quiet ==
  xfer' = <<>> /\ ret' = FALSE /\ wake' = 0 /\ led_wr' = 0 /\ last' = "none"

\* the host configures the device
Mount ==
  /\ ~mounted
  /\ (app_state = "STATE_IDLE") => (now <= MaxIdleNow)
  /\ mounted' = TRUE
  /\ blink_interval_ms' = tud_mount_cb
  /\ Quiet
  /\ UNCHANGED <<now, suspended, seqvars, hid_start_ms, led_start_ms,
                 led_state, led, kbd_leds, sent, histvars>>

\* the device is unplugged or the bus is reset
Unmount ==
  /\ mounted
  /\ mounted' = FALSE
  /\ suspended' = FALSE
  /\ blink_interval_ms' = tud_umount_cb
  /\ Quiet
  /\ cancel_pending' = (app_state # "STATE_IDLE")
  /\ UNCHANGED <<now, seqvars, hid_start_ms, led_start_ms, led_state, led,
                 kbd_leds, sent, wbt_entry_ms>>

\* the bus is suspended
Suspend ==
  /\ mounted /\ ~suspended
  /\ suspended' = TRUE
  /\ blink_interval_ms' = tud_suspend_cb
  /\ Quiet
  /\ UNCHANGED <<now, mounted, seqvars, hid_start_ms, led_start_ms, led_state,
                 led, kbd_leds, sent, histvars>>

\* the bus is resumed
Resume ==
  /\ suspended
  /\ suspended' = FALSE
  /\ blink_interval_ms' = tud_resume_cb
  /\ Quiet
  /\ UNCHANGED <<now, mounted, seqvars, hid_start_ms, led_start_ms, led_state,
                 led, kbd_leds, sent, histvars>>

\* ------------------------------------------------------------------------
\* HID callbacks
\* ------------------------------------------------------------------------
HasBit(byte, bit) == (byte \div bit) % 2 = 1

\* mutant: the report id is not looked at
tud_hid_set_report_cb_AnyId(report_id, report_type, buffer) ==
  LET same == [blink |-> blink_interval_ms, led |-> led, leds |-> kbd_leds,
               writes |-> 0]
  IN IF report_type = HID_REPORT_TYPE_OUTPUT
       THEN IF Len(buffer) < 1 THEN same
            ELSE IF HasBit(buffer[1], KEYBOARD_LED_CAPSLOCK)
              THEN [blink |-> 0, led |-> TRUE, leds |-> buffer[1],
                    writes |-> 1]
              ELSE [blink |-> BLINK_MOUNTED, led |-> FALSE,
                    leds |-> buffer[1], writes |-> 1]
       ELSE same

\* tud_hid_set_report_cb: what it leaves in blink_interval_ms, the LED, the
\* host's LED mask, and the number of board_led_write calls it makes
tud_hid_set_report_cb(report_id, report_type, buffer) ==
  LET same == [blink |-> blink_interval_ms, led |-> led, leds |-> kbd_leds,
               writes |-> 0]
  IN IF report_type = HID_REPORT_TYPE_OUTPUT /\ report_id = REPORT_ID_KEYBOARD
       THEN IF Len(buffer) < 1 THEN same
            ELSE IF HasBit(buffer[1], KEYBOARD_LED_CAPSLOCK)
              THEN [blink |-> 0, led |-> TRUE, leds |-> buffer[1],
                    writes |-> 1]
              ELSE [blink |-> BLINK_MOUNTED, led |-> FALSE,
                    leds |-> buffer[1], writes |-> 1]
       ELSE same

\* the SET_REPORT requests the host makes: report ids, report types (0 is
\* the type of data from the OUT endpoint) and payloads (empty, Numlock
\* alone, Capslock alone, both with a second byte)
ReportIds == {0, REPORT_ID_KEYBOARD, REPORT_ID_MOUSE}
ReportTypes == {0, HID_REPORT_TYPE_OUTPUT}
Buffers == {<<>>, <<1>>, <<KEYBOARD_LED_CAPSLOCK>>, <<3, 0>>}

\* the host writes a report to the configured, active device
SetReport(report_id, report_type, buffer) ==
  LET r == tud_hid_set_report_cb(report_id, report_type, buffer)
  IN /\ mounted /\ ~suspended
     /\ last' = "set_report"
     /\ blink_interval_ms' = r.blink
     /\ led' = r.led
     /\ kbd_leds' = r.leds
     /\ led_wr' = r.writes
     /\ xfer' = <<>>
     /\ ret' = FALSE
     /\ wake' = 0
     /\ UNCHANGED <<now, mounted, suspended, seqvars, hid_start_ms,
                    led_start_ms, led_state, sent, histvars>>

\* tud_hid_get_report_cb answers 0 bytes
tud_hid_get_report_cb == 0

GetReport ==
  /\ mounted /\ ~suspended
  /\ tud_hid_get_report_cb = 0
  /\ Quiet
  /\ UNCHANGED <<now, mounted, suspended, blink_interval_ms, seqvars,
                 hid_start_ms, led_start_ms, led_state, led, kbd_leds, sent,
                 histvars>>

\* tud_hid_report_complete_cb does nothing
ReportComplete ==
  /\ mounted
  /\ Quiet
  /\ UNCHANGED <<now, mounted, suspended, blink_interval_ms, seqvars,
                 hid_start_ms, led_start_ms, led_state, led, kbd_leds, sent,
                 histvars>>

\* ------------------------------------------------------------------------
\* led_blinking_task
\* ------------------------------------------------------------------------
\* mutant: an interval of 0 does not disable the blink
LedDue_NoZeroCheck == U32Sub(now, led_start_ms) >= blink_interval_ms

LedDue ==
  /\ blink_interval_ms # 0
  /\ U32Sub(now, led_start_ms) >= blink_interval_ms

led_blinking_task ==
  /\ xfer' = <<>>
  /\ ret' = FALSE
  /\ wake' = 0
  /\ last' = "led"
  /\ UNCHANGED <<now, mounted, suspended, blink_interval_ms, seqvars,
                 hid_start_ms, kbd_leds, sent, histvars>>
  /\ IF LedDue
       THEN /\ led_start_ms' = U32Add(led_start_ms, blink_interval_ms)
            /\ led' = led_state
            /\ led_state' = ~led_state
            /\ led_wr' = 1
       ELSE /\ UNCHANGED <<led_start_ms, led_state, led>>
            /\ led_wr' = 0

\* ------------------------------------------------------------------------
\* The millisecond clock
\* ------------------------------------------------------------------------
Tick(d) ==
  /\ U32Sub(now, hid_start_ms) < MaxLag
  /\ (d = 1) => (now % interval_ms < MaxFine)
  /\ (app_state = "STATE_IDLE") => (now + d <= MaxIdleNow)
  /\ now' = U32Add(now, d)
  /\ Quiet
  /\ UNCHANGED <<mounted, suspended, blink_interval_ms, seqvars, hid_start_ms,
                 led_start_ms, led_state, led, kbd_leds, sent, histvars>>

\* the clock of the sequencer's specification
Clock == \E d \in ClockSteps : Tick(d) /\ now + d <= MaxNow

\* the clock of the whole device's specification
DevClock == \E d \in ClockSteps : Tick(d) /\ now + d <= MaxDevNow

HostWrite ==
  \E report_id \in ReportIds, report_type \in ReportTypes, buffer \in Buffers :
    SetReport(report_id, report_type, buffer)

\* ------------------------------------------------------------------------
\* Spec: the sequencer and the device lifecycle over a whole script run.
\* DevSpec: every task and callback of the device over a short run.
\* ------------------------------------------------------------------------
Next ==
  \/ Clock
  \/ Mount
  \/ Unmount
  \/ Suspend
  \/ Resume
  \/ GetReport
  \/ ReportComplete
  \/ hid_task

Spec == Init /\ [][Next]_vars

DevNext ==
  \/ DevClock
  \/ Mount
  \/ Unmount
  \/ Suspend
  \/ Resume
  \/ HostWrite
  \/ GetReport
  \/ ReportComplete
  \/ led_blinking_task
  \/ hid_task

DevSpec == Init /\ [][DevNext]_vars

\* ------------------------------------------------------------------------
\* HelperSpec: the report helpers called on their own, with every answer of
\* tud_hid_ready() and of the send primitive, on arguments drawn from the
\* sets below.
\* ------------------------------------------------------------------------
HelperReportIds == {REPORT_ID_KEYBOARD, REPORT_ID_MOUSE}
Modifiers == {0, KEYBOARD_MODIFIER_LEFTSHIFT}
KeyCodes == {0, HID_KEY_A, HID_KEY_1, HID_KEY_SPACE}
KeycodeArrays ==
  {<<k, 0, 0, 0, 0, 0>> : k \in KeyCodes} \cup {<<HID_KEY_A, HID_KEY_1, 0, 0, 0, 0>>}
Deltas == {-20, 0, 1, 20}
Buttons == {0, MOUSE_BUTTON_LEFT}

\* what one call of a helper that came back with out leaves behind
Call(out) ==
  /\ Len(sent) < MaxAccepted
  /\ xfer' = out.handed
  /\ ret' = out.ret
  /\ sent' = IF out.ret THEN sent \o out.handed ELSE sent
  /\ wake' = 0
  /\ led_wr' = 0
  /\ UNCHANGED <<now, mounted, suspended, blink_interval_ms, seqvars,
                 hid_start_ms, led_start_ms, led_state, led, kbd_leds,
                 histvars>>

CallKeyboardReport(ready, ok) ==
  \E report_id \in HelperReportIds, modifier \in Modifiers,
     keycode \in KeycodeArrays :
    /\ last' = "send_keyboard_report"
    /\ Call(send_keyboard_report(ready, ok, report_id, modifier, keycode))

CallKeyPress(ready, ok) ==
  \E modifier \in Modifiers, key_code \in KeyCodes :
    /\ last' = "send_key_press"
    /\ Call(send_key_press(ready, ok, modifier, key_code))

CallKeyRelease(ready, ok) ==
  /\ last' = "send_key_release"
  /\ Call(send_key_release(ready, ok))

CallMouseMove(ready, ok) ==
  \E x \in Deltas, y \in Deltas :
    /\ last' = "send_mouse_move"
    /\ Call(send_mouse_move(ready, ok, x, y))

CallMouseClick(ready, ok) ==
  \E buttons \in Buttons :
    /\ last' = "send_mouse_click"
    /\ Call(send_mouse_click(ready, ok, buttons))

CallMouseRelease(ready, ok) ==
  /\ last' = "send_mouse_release"
  /\ Call(send_mouse_release(ready, ok))

HelperNext ==
  \/ \E ready, ok \in BOOLEAN : CallKeyboardReport(ready, ok)
  \/ \E ready, ok \in BOOLEAN : CallKeyPress(ready, ok)
  \/ \E ready, ok \in BOOLEAN : CallKeyRelease(ready, ok)
  \/ \E ready, ok \in BOOLEAN : CallMouseMove(ready, ok)
  \/ \E ready, ok \in BOOLEAN : CallMouseClick(ready, ok)
  \/ \E ready, ok \in BOOLEAN : CallMouseRelease(ready, ok)

HelperSpec == Init /\ [][HelperNext]_vars

\* ------------------------------------------------------------------------
\* CaseSpec: the switch of hid_task applied to every value of app_state_t
\* and every cursor position, on a mounted device, over a few polls.
\* ------------------------------------------------------------------------
CaseInit ==
  /\ now = 0
  /\ mounted = TRUE
  /\ suspended = FALSE
  /\ blink_interval_ms = BLINK_MOUNTED
  /\ app_state \in States
  /\ state_start_ms = 0
  /\ text_index \in 0..TextLen
  /\ hid_start_ms = 0
  /\ led_start_ms = 0
  /\ led_state = FALSE
  /\ led = FALSE
  /\ kbd_leds = 0
  /\ sent = <<>>
  /\ xfer = <<>>
  /\ ret = FALSE
  /\ wake = 0
  /\ led_wr = 0
  /\ last = "none"
  /\ cancel_pending = FALSE
  /\ wbt_entry_ms = 0

CaseClock == \E d \in ClockSteps : Tick(d) /\ now + d <= MaxCaseNow

CaseNext ==
  \/ CaseClock
  \/ hid_task

CaseSpec == CaseInit /\ [][CaseNext]_vars

\* ------------------------------------------------------------------------
\* LiveSpec: the sequencer and the device lifecycle over an endless run.
\* The clock goes on for ever in steps of the poll interval.  hid_task
\* reads the clock only in the differences board_millis() - start_ms and
\* board_millis() - state_start_ms, compared with 10, 2000 and 500: once
\* the clock value has reached MaxLiveNow a clock step is written as a step
\* back of every stored clock value (an anchor older than MaxLiveNow stays
\* at 0, more than 2000 ms ago).  As in the other specifications the
\* 2^32 ms wrap of the clock is not part of the run.  The main loop calls
\* hid_task for ever and the clock runs for ever: both are weakly fair.
\* A session starts from Idle early, as in Spec, or late, once the clock
\* value has reached MaxLiveNow.
\* ------------------------------------------------------------------------
Back(t) == IF t >= interval_ms THEN t - interval_ms ELSE 0

LiveLate == now + interval_ms > MaxLiveNow

LiveTick ==
  /\ U32Sub(now, hid_start_ms) < MaxLag
  /\ (app_state = "STATE_IDLE") =>
       (now + interval_ms <= MaxIdleNow \/ LiveLate)
  /\ IF now + interval_ms <= MaxLiveNow
       THEN /\ now' = U32Add(now, interval_ms)
            /\ UNCHANGED <<hid_start_ms, state_start_ms, wbt_entry_ms>>
       ELSE /\ now' = now
            /\ hid_start_ms' = Back(hid_start_ms)
            /\ state_start_ms' = Back(state_start_ms)
            /\ wbt_entry_ms' = Back(wbt_entry_ms)
  /\ Quiet
  /\ UNCHANGED <<mounted, suspended, blink_interval_ms, app_state, text_index,
                 led_start_ms, led_state, led, kbd_leds, sent, cancel_pending>>

\* the host configures the device, for the first time or again
Remount ==
  /\ ~mounted
  /\ (app_state = "STATE_IDLE") =>
       (now <= MaxIdleNow \/ (LiveLate /\ Len(sent) <= MaxSentAtRemount))
  /\ mounted' = TRUE
  /\ blink_interval_ms' = tud_mount_cb
  /\ Quiet
  /\ UNCHANGED <<now, suspended, seqvars, hid_start_ms, led_start_ms,
                 led_state, led, kbd_leds, sent, histvars>>

LiveNext ==
  \/ LiveTick
  \/ Remount
  \/ Unmount
  \/ Suspend
  \/ Resume
  \/ hid_task

LiveSpec ==
  /\ Init
  /\ [][LiveNext]_vars
  /\ WF_vars(LiveTick)
  /\ WF_vars(hid_task)

\* ------------------------------------------------------------------------
\* Properties
\* ------------------------------------------------------------------------
\* a hid_task call that passes the poll gate with the device mounted and not
\* suspended, tud_hid_ready() answering ready at the guard
ActiveTick(ready) ==
  /\ U32Sub(now, hid_start_ms) >= interval_ms
  /\ mounted
  /\ ~suspended
  /\ \E ready2, ok \in BOOLEAN : HidTask(ready, ready2, ok)

Elapsed == U32Sub(now, state_start_ms)

\* C1 (as claimed): after an unmount event app_state is STATE_IDLE before the
\* sequencer takes any further script step, also when the device is mounted
\* again before the next hid_task call that passes the poll gate: no call
\* evaluates the switch while an unmount is still waiting to be turned into
\* a reset.
C1_UnmountCancels == (last = "switch") => ~cancel_pending

\* C2: a hid_task call that passes the poll gate while the device is mounted
\* and not suspended and tud_hid_ready() is false leaves app_state,
\* text_index and state_start_ms unchanged and hands no report to the
\* transport.
C2_NotReadyTickChangesNothing ==
  [][ActiveTick(FALSE) =>
       /\ UNCHANGED <<app_state, text_index, state_start_ms>>
       /\ xfer' = <<>>
       /\ sent' = sent]_vars

C2_Witness ==
  /\ last = "not_ready"
  /\ app_state = "STATE_RELEASE_CHAR"
  /\ text_index = 5
  /\ Len(sent) = 11

\* The keyboard reports of "Hello World!", written out: a press and an
\* all-zero release per character.
Press(modifier, key) ==
  [kind |-> "keyboard", id |-> 1, modifier |-> modifier,
   keycode |-> <<key, 0, 0, 0, 0, 0>>]
Release ==
  [kind |-> "keyboard", id |-> 1, modifier |-> 0,
   keycode |-> <<0, 0, 0, 0, 0, 0>>]
HelloWorldReports ==
  << Press(2, 11), Release,   \* H
     Press(0, 8), Release,    \* e
     Press(0, 15), Release,   \* l
     Press(0, 15), Release,   \* l
     Press(0, 18), Release,   \* o
     Press(0, 44), Release,   \* space
     Press(2, 26), Release,   \* W
     Press(0, 18), Release,   \* o
     Press(0, 21), Release,   \* r
     Press(0, 15), Release,   \* l
     Press(0, 7), Release,    \* d
     Press(2, 30), Release >> \* !

\* C3: when the sequencer is in Done, the keyboard reports sent are exactly
\* one press and one all-zero release per character of "Hello World!", in
\* text order, left shift set on exactly the presses of 'H', 'W' and '!'
\* ('!' typed with the "1" key), and the cursor stands after the '!'.
C3_HelloWorldTyped ==
  (app_state = "STATE_DONE") =>
    (sent = HelloWorldReports /\ text_index = 12)

C3_Witness ==
  /\ app_state = "STATE_DONE"
  /\ last = "switch"
  /\ mounted
  /\ ~cancel_pending
  /\ Len(sent) = 24

\* the reports a run with no stall hands over, from the cursor i on
RECURSIVE NoStallFrom(_)
NoStallFrom(i) ==
  IF TextAt(i) = 0 THEN <<>>
  ELSE send_key_press(TRUE, TRUE, KeyFor(TextAt(i)).modifier,
                      KeyFor(TextAt(i)).key).handed
       \o send_key_release(TRUE, TRUE).handed
       \o NoStallFrom(i + 1)
NoStallReports == NoStallFrom(0)

\* C4: under any pattern of not-ready ticks and failed sends the reports the
\* transport accepted are a prefix of the reports of the run with no stall,
\* and the cursor counts the completed press/release pairs: text_index is
\* the number of pairs sent, one press more while in ReleaseChar.
C4_StallsKeepTheSequence ==
  /\ Len(sent) <= Len(NoStallReports)
  /\ sent = SubSeq(NoStallReports, 1, Len(sent))
  /\ (app_state \in {"STATE_TYPE_CHAR", "STATE_DONE"}) =>
       (Len(sent) = 2 * text_index)
  /\ (app_state = "STATE_RELEASE_CHAR") => (Len(sent) = 2 * text_index + 1)

\* a press of the 8th character was handed over and refused: the sequencer
\* is still in TypeChar with the cursor on it
C4_Witness ==
  /\ app_state = "STATE_TYPE_CHAR"
  /\ text_index = 7
  /\ last = "switch"
  /\ xfer = <<Press(0, 18)>>
  /\ Len(sent) = 14

\* C5 (as claimed): from WaitInit an active, ready tick moves to
\* WaitBeforeType exactly when at least 2000 ms have elapsed since the
\* anchor: a tick at 1999 ms stays, ticks at 2000 ms and 2001 ms move.
C5_FiresAt2000 ==
  [][(ActiveTick(TRUE) /\ app_state = "STATE_WAIT_INIT") =>
       ((app_state' = "STATE_WAIT_BEFORE_TYPE") <=> (Elapsed >= 2000))]_vars

\* C5 (amended): leaving Idle captures the clock as the anchor, and from
\* WaitInit an active, ready tick moves to WaitBeforeType exactly when more
\* than 2000 ms have elapsed since the anchor, and stays in WaitInit
\* otherwise: ticks at 1999 ms and at 2000 ms stay, a tick at 2001 ms moves.
C5_FiresAfter2000 ==
  [][/\ (ActiveTick(TRUE) /\ app_state = "STATE_IDLE") =>
          (app_state' = "STATE_WAIT_INIT" /\ state_start_ms' = now)
     /\ (ActiveTick(TRUE) /\ app_state = "STATE_WAIT_INIT") =>
          /\ (Elapsed >= 2001) => (app_state' = "STATE_WAIT_BEFORE_TYPE")
          /\ (Elapsed <= 2000) => (app_state' = "STATE_WAIT_INIT")
          /\ state_start_ms' = state_start_ms
     /\ (app_state # "STATE_WAIT_INIT" /\ app_state' = "STATE_WAIT_INIT") =>
          (app_state = "STATE_IDLE")]_vars

\* the transition has just fired at 2001 ms elapsed
C5_Witness ==
  /\ app_state = "STATE_WAIT_BEFORE_TYPE"
  /\ last = "switch"
  /\ wbt_entry_ms = now
  /\ now - state_start_ms = 2001

\* a ready tick at exactly 2000 ms elapsed has left the sequencer in WaitInit
C5_StaysAt2000 ==
  /\ app_state = "STATE_WAIT_INIT"
  /\ last = "switch"
  /\ now - state_start_ms = 2000

\* C6 (as claimed): the WaitBeforeType -> TypeChar transition fires only
\* after 500 ms have elapsed since the sequencer entered WaitBeforeType, on
\* every path into it, and resets text_index to 0.
C6_WaitsAfterEntry ==
  [][(app_state = "STATE_WAIT_BEFORE_TYPE" /\ app_state' = "STATE_TYPE_CHAR")
       => (U32Sub(now, wbt_entry_ms) >= 500 /\ text_index' = 0)]_vars

\* C7 (as claimed): every session starts the script from its beginning (the
\* sequencer is Idle when the device is mounted, and typing starts with
\* text_index 0), and once Done is reached the state stays Done and no
\* report is sent while the device stays mounted.
C7_OncePerSession ==
  [][/\ (~mounted /\ mounted') => (app_state = "STATE_IDLE")
     /\ (app_state # "STATE_TYPE_CHAR" /\ app_state' = "STATE_TYPE_CHAR"
           /\ app_state # "STATE_RELEASE_CHAR") => (text_index' = 0)
     /\ (app_state = "STATE_DONE" /\ mounted /\ mounted') =>
          (app_state' = "STATE_DONE" /\ sent' = sent /\ xfer' = <<>>)]_vars

\* the blink interval the connection state selects
ConnectionInterval ==
  IF suspended THEN 2500 ELSE IF mounted THEN 1000 ELSE 250

\* the last keyboard SET_REPORT had the Capslock bit set
LockEngaged == (kbd_leds \div 2) % 2 = 1

\* C8 (as claimed): the blink interval is the one the connection state
\* selects whenever the indicator lock is not engaged, and it is 0 for as
\* long as the lock is engaged, across mount, unmount, suspend and resume.
C8_IntervalFollowsConnection ==
  IF LockEngaged THEN blink_interval_ms = 0
  ELSE blink_interval_ms = ConnectionInterval

\* the first half of C8 alone
C8_UnlockedIntervalFollowsConnection ==
  (~LockEngaged) => (blink_interval_ms = ConnectionInterval)

\* C9: a keyboard output SET_REPORT with the Capslock bit set in byte 0 sets
\* the blink interval to 0 and writes the indicator on; with the bit clear
\* it writes the indicator off once and sets the interval to 1000; and
\* led_blinking_task called while the interval is 0 writes nothing.
C9_CapslockLocksTheIndicator ==
  [][/\ \A b \in Buffers :
          (Len(b) >= 1 /\ SetReport(1, 2, b)) =>
             IF (b[1] \div 2) % 2 = 1
               THEN blink_interval_ms' = 0 /\ led' = TRUE /\ led_wr' = 1
               ELSE blink_interval_ms' = 1000 /\ led' = FALSE /\ led_wr' = 1
     /\ (blink_interval_ms = 0 /\ led_blinking_task) =>
          /\ led_wr' = 0
          /\ UNCHANGED <<led, led_state, led_start_ms, blink_interval_ms>>
    ]_vars

\* led_blinking_task has run with the lock engaged, a blink period after its
\* last toggle, and has written nothing
C9_Witness ==
  /\ last = "led"
  /\ blink_interval_ms = 0
  /\ led = TRUE
  /\ led_wr = 0
  /\ now - led_start_ms >= 250

\* C10: a SET_REPORT with a zero-length payload, a report type other than
\* output, or a report id other than the keyboard's changes neither the
\* blink interval nor the indicator nor any sequencer variable, and writes
\* nothing to the indicator.
C10_OtherSetReportsIgnored ==
  [][\A report_id \in ReportIds, report_type \in ReportTypes, b \in Buffers :
       ((Len(b) = 0 \/ report_type # 2 \/ report_id # 1)
          /\ SetReport(report_id, report_type, b)) =>
         /\ UNCHANGED <<blink_interval_ms, led, led_state, led_start_ms,
                        app_state, text_index, state_start_ms, hid_start_ms,
                        kbd_leds, sent>>
         /\ led_wr' = 0]_vars

\* an ignored SET_REPORT has left the engaged lock as it was
C10_Witness ==
  /\ last = "set_report"
  /\ led_wr = 0
  /\ blink_interval_ms = 0
  /\ led = TRUE
  /\ LockEngaged
  /\ app_state = "STATE_WAIT_INIT"

\* C11: send_keyboard_report, send_key_press, send_mouse_move,
\* send_mouse_click and send_mouse_release, called while tud_hid_ready() is
\* false, return false and hand no payload to the send primitive; called
\* while it is true they hand over exactly one payload and return what the
\* send primitive returned.
C11_HelpersGateOnReadiness ==
  [][\A ready, ok \in BOOLEAN :
       (\/ CallKeyboardReport(ready, ok)
        \/ CallKeyPress(ready, ok)
        \/ CallMouseMove(ready, ok)
        \/ CallMouseClick(ready, ok)
        \/ CallMouseRelease(ready, ok)) =>
         IF ready
           THEN /\ Len(xfer') = 1
                /\ ret' = ok
                /\ sent' = IF ok THEN Append(sent, xfer'[1]) ELSE sent
           ELSE /\ xfer' = <<>>
                /\ ret' = FALSE
                /\ sent' = sent]_vars

\* send_mouse_click found the transport ready, handed the click over, and
\* returned the refusal of the send primitive
C11_Witness ==
  /\ last = "send_mouse_click"
  /\ xfer = <<[kind |-> "mouse", id |-> 2, buttons |-> 1, x |-> 0, y |-> 0,
               vertical |-> 0, horizontal |-> 0]>>
  /\ ret = FALSE
  /\ sent = <<>>

\* C12 (as claimed): no report helper, send_key_release included, hands a
\* payload to the send primitive when tud_hid_ready() is false at the call.
C12_EveryHelperChecksReadiness ==
  [][\A ok \in BOOLEAN :
       (\/ CallKeyboardReport(FALSE, ok)
        \/ CallKeyPress(FALSE, ok)
        \/ CallKeyRelease(FALSE, ok)
        \/ CallMouseMove(FALSE, ok)
        \/ CallMouseClick(FALSE, ok)
        \/ CallMouseRelease(FALSE, ok)) => (xfer' = <<>>)]_vars

\* C13: a hid_task call that passes the poll gate while the device is
\* mounted and suspended calls tud_remote_wakeup() exactly once, hands no
\* report to the transport, and leaves app_state, text_index and
\* state_start_ms unchanged; the resume event leaves them unchanged too, so
\* the script goes on from the state it was suspended in.
C13_SuspendedTickOnlyWakes ==
  [][/\ (/\ U32Sub(now, hid_start_ms) >= 10
         /\ mounted
         /\ suspended
         /\ hid_task) =>
          /\ wake' = 1
          /\ xfer' = <<>>
          /\ sent' = sent
          /\ UNCHANGED <<app_state, text_index, state_start_ms>>
     /\ Resume => UNCHANGED <<app_state, text_index, state_start_ms>>]_vars

\* a poll of the suspended device in the middle of the fourth character
C13_Witness ==
  /\ last = "suspended"
  /\ wake = 1
  /\ suspended
  /\ app_state = "STATE_RELEASE_CHAR"
  /\ text_index = 3
  /\ Len(sent) = 7

MouseStates == {"STATE_MOUSE_UP", "STATE_MOUSE_DOWN", "STATE_CLICK_PRESS",
                "STATE_CLICK_RELEASE"}

\* C14: from the initial state the sequencer is never in MouseUp,
\* MouseDown, ClickPress or ClickRelease, and no mouse report is handed to
\* the transport or accepted by it.
C14_MouseStatesNeverEntered ==
  /\ app_state \notin MouseStates
  /\ \A i \in 1..Len(sent) : sent[i].kind # "mouse"
  /\ \A i \in 1..Len(xfer) : xfer[i].kind # "mouse"

\* the initial wait has just ended: the sequencer is in WaitBeforeType and
\* nothing was sent on the way
C14_Witness ==
  /\ app_state = "STATE_WAIT_BEFORE_TYPE"
  /\ last = "switch"
  /\ wbt_entry_ms = now
  /\ mounted
  /\ sent = <<>>
  /\ xfer = <<>>

SendStates == MouseStates \cup {"STATE_TYPE_CHAR", "STATE_RELEASE_CHAR"}

\* the case of the current state calls a send helper
Attempts ==
  /\ app_state \in SendStates
  /\ (app_state = "STATE_TYPE_CHAR") => (TextAt(text_index) # 0)

\* C15: in MouseUp, MouseDown, ClickPress, ClickRelease, TypeChar (on a
\* character) and ReleaseChar, a tick whose send helper returns false leaves
\* app_state, text_index and state_start_ms unchanged; and the evaluated
\* tick that follows a refused payload hands the same payload over again
\* when its helper finds the transport ready.
C15_FailedSendIsRetried ==
  [][/\ (Attempts /\ ActiveTick(TRUE) /\ ~ret') =>
          UNCHANGED <<app_state, text_index, state_start_ms>>
     /\ \A ok \in BOOLEAN :
          (/\ Attempts
           /\ last = "switch"
           /\ ~ret
           /\ xfer # <<>>
           /\ U32Sub(now, hid_start_ms) >= 10
           /\ mounted
           /\ ~suspended
           /\ HidTask(TRUE, TRUE, ok)) => (xfer' = xfer)]_vars

\* the click was handed over and refused: the sequencer is still in
\* ClickPress
C15_Witness ==
  /\ app_state = "STATE_CLICK_PRESS"
  /\ last = "switch"
  /\ ret = FALSE
  /\ xfer = send_mouse_click(TRUE, FALSE, MOUSE_BUTTON_LEFT).handed
  /\ U32Sub(now, hid_start_ms) >= 10

\* C16: a hid_task call made less than 10 ms after start_ms has no effect at
\* all; any other call advances start_ms by exactly 10, whatever the clock
\* reads, and evaluates the guards and the state; so a call made 20 ms or
\* more after start_ms leaves the next call due as well.
C16_FixedStepGate ==
  [][hid_task =>
       IF U32Sub(now, hid_start_ms) < 10
         THEN /\ UNCHANGED <<now, mounted, suspended, blink_interval_ms,
                             app_state, state_start_ms, text_index,
                             hid_start_ms, led_start_ms, led_state, led,
                             kbd_leds, sent>>
              /\ xfer' = <<>>
              /\ wake' = 0
              /\ led_wr' = 0
              /\ last' = "none"
         ELSE /\ hid_start_ms' = hid_start_ms + 10
              /\ last' \in {"unmounted", "suspended", "not_ready", "switch"}
              /\ (now - hid_start_ms >= 20) =>
                   (U32Sub(now', hid_start_ms') >= 10)]_vars

\* the first of two consecutive evaluated calls has run: the clock was 20 ms
\* ahead, start_ms went up by 10 and the next call is due
C16_Witness ==
  /\ last = "switch"
  /\ app_state = "STATE_RELEASE_CHAR"
  /\ ret
  /\ now - hid_start_ms = 10
  /\ hid_start_ms % 10 = 0

\* C17: app_state, text_index and state_start_ms change only in a hid_task
\* call that passes the poll gate (no lifecycle callback, HID callback or
\* led_blinking_task changes them); a change made outside the switch is the
\* reset of app_state to Idle on the unmounted path, which leaves text_index
\* and state_start_ms alone; and hid_task never changes blink_interval_ms.
C17_SequencerOwnedByHidTask ==
  [][/\ (<<app_state, text_index, state_start_ms>>' #
           <<app_state, text_index, state_start_ms>>) =>
          /\ U32Sub(now, hid_start_ms) >= 10
          /\ hid_task
          /\ (last' # "switch") =>
               /\ last' = "unmounted"
               /\ app_state' = "STATE_IDLE"
               /\ UNCHANGED <<text_index, state_start_ms>>
     /\ hid_task => (blink_interval_ms' = blink_interval_ms)]_vars

\* the unmounted path has reset a sequencer that had left Idle: the anchor
\* of the cancelled run is still there
C17_Witness ==
  /\ last = "unmounted"
  /\ app_state = "STATE_IDLE"
  /\ state_start_ms = 10
  /\ now > 10
  /\ blink_interval_ms = BLINK_NOT_MOUNTED

\* C19: text_index is always between 0 and 12, the position of the NUL that
\* ends text_to_type, so TypeChar never reads past the NUL.
C19_CursorWithinText ==
  /\ text_index >= 0
  /\ text_index <= 12
  /\ TextLen = 12

\* TypeChar is about to read the NUL
C19_Witness ==
  /\ app_state = "STATE_TYPE_CHAR"
  /\ text_index = 12
  /\ last = "switch"
  /\ xfer = <<Release>>

\* a hid_task call that passes the poll gate on the mounted, active device,
\* with the transport ready at the guard and in the helper and the send
\* accepted
AcceptedTick ==
  /\ U32Sub(now, hid_start_ms) >= 10
  /\ mounted
  /\ ~suspended
  /\ HidTask(TRUE, TRUE, TRUE)

\* C18: if from some point on the device stays mounted and not suspended
\* and, with the clock running and hid_task being called, the transport is
\* ready and accepts the send on infinitely many evaluated ticks, the
\* sequencer eventually is in Done; and on the mounted device app_state
\* changes only in a tick that found the transport ready, so a transport
\* that is never ready keeps the sequencer in its state, which is always
\* one of the ten values of app_state_t.
C18_ReachesDoneOrStalls ==
  /\ [](app_state \in States)
  /\ [][(mounted /\ app_state' # app_state) =>
          (/\ U32Sub(now, hid_start_ms) >= 10
           /\ ~suspended
           /\ \E ready2, ok \in BOOLEAN : HidTask(TRUE, ready2, ok))]_vars
  /\ (([]<><<AcceptedTick>>_vars) /\ <>[](mounted /\ ~suspended))
       => <>(app_state = "STATE_DONE")

\* Done was reached on the mounted device after the clock value stopped
\* being written
C18_Witness ==
  /\ app_state = "STATE_DONE"
  /\ last = "switch"
  /\ mounted
  /\ ~suspended
  /\ state_start_ms = 0
  /\ now >= 2100

IsRelease(r) == r.kind = "keyboard" /\ r.modifier = 0 /\ r.keycode = NoKeys

====
